---- MODULE Spec2Model ----
(***************************************************************************)
(* A model of greencrawler: the persistent token and url tables, the       *)
(* Crawler object (TasksState, busy flag, current token), and the          *)
(* coroutines Crawler.start / Crawler.resume / Crawler.task running on one *)
(* asyncio event loop.  A coroutine runs without interruption between two  *)
(* awaits; the variable `running` names the task that holds the loop.      *)
(*                                                                         *)
(* Strings that the code inspects character by character (host, path) are  *)
(* sequences of one-character strings.  A URL string is kept in the parsed *)
(* form that urllib.parse.urlparse gives it: scheme, netloc, path, query   *)
(* (a sequence of <<key, value>> pairs) and fragment.                      *)
(***************************************************************************)
EXTENDS Integers, Sequences, FiniteSets, TLC

\* ------------------------------------------------------------------ bounds
NumberOfTasks == 2
MaxTokens == 1
MaxRuns == 2
MaxCrashes == 1
MaxLinks == 2
LimitL == 2

\* --------------------------------------------------------- program constants
HTTP_VSTATUS_NO_RESPONSE == 0
HTTP_VSTATUS_NOT_HTML == 13
MaxExtensionLen == 5

\* token_id = None (the store's ids start at 1)
NoToken == 0
\* the NULL of the nullable status column (no HTTP status is negative)
NULL == -1

\* ------------------------------------------------------------------ strings
Lower(c) ==
  CASE c = "A" -> "a" [] c = "B" -> "b" [] c = "H" -> "h" [] c = "W" -> "w"
    [] OTHER -> c

lower(s) == [k \in 1..Len(s) |-> Lower(s[k])]

startswith(s, p) == Len(s) >= Len(p) /\ SubSeq(s, 1, Len(p)) = p

endswith(s, p) == Len(s) >= Len(p) /\ SubSeq(s, Len(s) - Len(p) + 1, Len(s)) = p

\* re.sub("//+", "/", s): every run of slashes becomes one slash
RECURSIVE CollapseSlashes(_)
CollapseSlashes(s) ==
  IF Len(s) <= 1 THEN s
  ELSE IF s[1] = "/" /\ s[2] = "/" THEN CollapseSlashes(Tail(s))
  ELSE <<s[1]>> \o CollapseSlashes(Tail(s))

\* s.split(".")[-1]: what follows the last dot
RECURSIVE AfterLastDot(_)
AfterLastDot(s) ==
  IF s = <<>> THEN <<>>
  ELSE IF s[Len(s)] = "." THEN <<>>
  ELSE Append(AfterLastDot(SubSeq(s, 1, Len(s) - 1)), s[Len(s)])

Contains(s, c) == \E k \in 1..Len(s) : s[k] = c

\* parent.path.split('/') with the last part dropped: the path up to and
\* including its last slash ("" when the path has no slash)
RECURSIVE UpToLastSlash(_)
UpToLastSlash(s) ==
  IF s = <<>> THEN <<>>
  ELSE IF s[Len(s)] = "/" THEN s
  ELSE UpToLastSlash(SubSeq(s, 1, Len(s) - 1))

\* order of characters in Python string comparison, for the characters used
Ord(c) ==
  CASE c = "1" -> 1 [] c = "2" -> 2 [] c = "A" -> 10 [] c = "B" -> 11
    [] c = "a" -> 20 [] c = "b" -> 21 [] OTHER -> 30

RECURSIVE InsertSorted(_, _)
InsertSorted(x, s) ==
  IF s = <<>> THEN <<x>>
  ELSE IF Ord(x) <= Ord(s[1]) THEN <<x>> \o s
  ELSE <<s[1]>> \o InsertSorted(x, Tail(s))

\* sorted(list)
RECURSIVE Sorted(_)
Sorted(s) == IF s = <<>> THEN <<>> ELSE InsertSorted(s[1], Sorted(Tail(s)))

RECURSIVE SortedSet(_)
SortedSet(S) ==
  IF S = {} THEN <<>>
  ELSE LET m == CHOOSE x \in S : \A y \in S : Ord(x) <= Ord(y)
       IN <<m>> \o SortedSet(S \ {m})

\* -------------------------------------------------------------------- URLs
\* urlparse(s): the parsed form of a URL string
Url(scheme, netloc, path, query, fragment) ==
  [scheme |-> scheme, netloc |-> netloc, path |-> path, query |-> query,
   fragment |-> fragment]

\* None, where the code has None in place of a URL string
NoUrl == Url("None", <<>>, <<>>, <<>>, "")

\* None, where the code has None in place of a fingerprint
NoHash == <<>>

\* url.split('#')[0]
StripFragment(u) == [u EXCEPT !.fragment = ""]

\* ParseResult.scheme: urlparse lower-cases the scheme
LowerScheme(s) ==
  CASE s = "HTTP" -> "http" [] s = "HTTPS" -> "https" [] OTHER -> s

HostChars == {"a", "b", "e", "h", "i", "o", "s", "w", "x", "A", "B", "H", "W", "."}

\* the host alternative of the regex of URLData.__init__: dotted labels, none
\* of them empty, the last of at least two characters
ValidHost(n) ==
  /\ n # <<>>
  /\ \A k \in 1..Len(n) : n[k] \in HostChars
  /\ Contains(n, ".")
  /\ n[1] # "."
  /\ \A k \in 1..(Len(n) - 1) : ~(n[k] = "." /\ n[k + 1] = ".")
  /\ Len(AfterLastDot(n)) >= 2

\* re.match(regex, full_url) is not None
MatchesRegex(u) ==
  /\ LowerScheme(u.scheme) \in {"http", "https"}
  /\ ValidHost(u.netloc)
  /\ u.path = <<>> \/ u.path[1] = "/"

\* URLData.__init__(url, parent_url): full_url (NoUrl when not valid), details,
\* and whether the constructor raises (re.match on a parent_url of None)
URLData(url, parent_url) ==
  LET first == StripFragment(url)
      invalid == [full_url |-> NoUrl, details |-> first, raises |-> FALSE]
  IN IF MatchesRegex(first)
       THEN [full_url |-> first, details |-> first, raises |-> FALSE]
     ELSE IF url.scheme # "" THEN invalid
     ELSE IF parent_url = NoUrl
       THEN [full_url |-> NoUrl, details |-> first, raises |-> TRUE]
     ELSE IF ~MatchesRegex(parent_url) THEN invalid
     ELSE IF url.netloc = <<>> /\ url.path = <<>> /\ url.query = <<>>
       THEN invalid
     ELSE
       LET p == parent_url
           resolved ==
             IF url.netloc # <<>>
               THEN Url(LowerScheme(p.scheme), url.netloc, url.path, url.query, "")
             ELSE IF url.path # <<>> /\ url.path[1] = "/"
               THEN Url(LowerScheme(p.scheme), p.netloc, url.path, url.query, "")
             ELSE IF url.path = <<>>
               THEN Url(LowerScheme(p.scheme), p.netloc,
                        IF p.path # <<>> THEN p.path ELSE <<"/">>, url.query, "")
             ELSE Url(LowerScheme(p.scheme), p.netloc,
                      (IF Contains(p.path, "/") THEN UpToLastSlash(p.path)
                       ELSE <<"/">> \o p.path) \o url.path,
                      url.query, "")
       IN IF MatchesRegex(resolved)
            THEN [full_url |-> resolved, details |-> resolved, raises |-> FALSE]
          ELSE [full_url |-> NoUrl, details |-> first, raises |-> FALSE]

\* no URLData assigned yet
NoUrlData == [full_url |-> NoUrl, details |-> NoUrl, raises |-> FALSE]

\* URLData.__bool__
Valid(d) == d.full_url # NoUrl

\* URLData.domain: ParseResult.hostname, the host in lower case
domain(d) == lower(d.details.netloc)

\* URLData.is_http: the scheme starts with "http"
is_http(d) == LowerScheme(d.details.scheme) \in {"http", "https"}

\* parse_qs(query), sorted by key, each key's values lower-cased and sorted
NormQuery(q) ==
  LET keys == SortedSet({q[k][1] : k \in 1..Len(q)})
      vals(key) ==
        LET ps == SelectSeq(q, LAMBDA p : p[1] = key)
        IN Sorted([k \in 1..Len(ps) |-> Lower(ps[k][2])])
  IN [j \in 1..Len(keys) |-> <<Lower(keys[j]), vals(keys[j])>>]

\* URLData.hash: the four parts that are joined and digested (MD5 is taken
\* to be injective on them); NoHash when the URL is not http(s)
hash(d) ==
  IF ~is_http(d) THEN NoHash
  ELSE LET netloc == lower(d.details.netloc)
       IN <<LowerScheme(d.details.scheme),
            IF startswith(netloc, <<"w", "w", "w", ".">>)
              THEN SubSeq(netloc, 5, Len(netloc)) ELSE netloc,
            IF d.details.path # <<>> THEN CollapseSlashes(lower(d.details.path))
              ELSE <<"/">>,
            NormQuery(d.details.query)>>

\* ------------------------------------------------------------------ inputs
HostH == <<"h", ".", "i", "o">>
HostWww == <<"W", "W", "W", ".", "h", ".", "i", "o">>
HostSub == <<"s", ".", "h", ".", "i", "o">>

SeedH == Url("http", HostH, <<"/">>, <<>>, "")
SeedFtp == Url("ftp", HostH, <<"/">>, <<>>, "")
SeedBare == Url("", <<>>, HostH, <<>>, "")
Seeds == {SeedH, SeedFtp, SeedBare}

CrawlingMode == {"DOMAIN_ONLY", "DOMAIN_AND_SUBDOMAINS", "ALL"}

\* the modes start is called with
Modes == {"DOMAIN_ONLY", "DOMAIN_AND_SUBDOMAINS"}

\* the href values a fetched page may hold: a page of the seed's host, the
\* seed itself written another way, and a page of a subdomain
Hrefs ==
  { Url("http", HostH, <<"/", "a">>, <<>>, ""),
    Url("HTTP", HostWww, <<>>, <<>>, "f"),
    Url("http", HostSub, <<"/">>, <<>>, "") }

\* URL strings for direct calls of URLData.hash and Crawler._add_url:
\*   https://H.io/a//b/?b=2&a=1#f    https://www.h.io/a/b?a=1&b=2
\*   HTTPS://h.io/a//b/?A=1&B=2      https://h.io/a/b/?a=1&b=2
PathAB == <<"/", "a", "/", "b">>
PathABSlashes == <<"/", "a", "/", "/", "b", "/">>
FingerprintInputs ==
  { Url("https", <<"H", ".", "i", "o">>, PathABSlashes,
        << <<"b", "2">>, <<"a", "1">> >>, "f"),
    Url("https", <<"w", "w", "w", ".">> \o HostH, PathAB,
        << <<"a", "1">>, <<"b", "2">> >>, ""),
    Url("HTTPS", HostH, PathABSlashes, << <<"A", "1">>, <<"B", "2">> >>, ""),
    Url("https", HostH, Append(PathAB, "/"), << <<"a", "1">>, <<"b", "2">> >>, "") }

RECURSIVE SeqsUpTo(_, _)
SeqsUpTo(S, n) ==
  IF n = 0 THEN {<<>>}
  ELSE LET shorter == SeqsUpTo(S, n - 1)
       IN shorter \cup {Append(q, x) : q \in shorter, x \in S}

\* html: the text of a response; what the code reads of it is whether it is
\* empty and the href values re.findall gives
EmptyHtml == [empty |-> TRUE, hrefs |-> <<>>]
Bodies ==
  {EmptyHtml} \cup {[empty |-> FALSE, hrefs |-> h] : h \in SeqsUpTo(Hrefs, MaxLinks)}

\* response.status of a text/html response
Statuses == {200, 404}

\* ------------------------------------------------------------------- state
VARIABLES
  tokens,            \* the tokens table: row id = index
  urls,              \* the urls table: row id = index
  urls_limit,        \* Crawler.urls_limit (NoLimit: None)
  tasks_state,       \* Crawler.tasks_state.tasks
  busy,              \* Crawler._busy
  token_id,          \* Crawler.token_id
  crawling_mode,     \* Crawler.crawling_mode
  initial_url_data,  \* Crawler.initial_url_data
  frame,             \* each task coroutine: its position and its locals
  running,           \* the task that holds the event loop ({} : none)
  outcome,           \* how the last call of a method of the crawler ended
  crashes,           \* number of times the process was killed
  run                \* log of the current run: calls and rows, for the claims

vars == <<tokens, urls, urls_limit, tasks_state, busy, token_id, crawling_mode,
          initial_url_data, frame, running, outcome, crashes, run>>

Tasks == 0..(NumberOfTasks - 1)

NoLimit == 0

\* a task's position and locals; body: whether html is non-empty; hooked:
\* calls of custom_process_url in this turn of the loop; skips: the tests of
\* _process_url that stopped a candidate in this turn; error: whether the
\* fetch of this turn ended in one of the two except clauses
NoFrame ==
  [pc |-> "none", url |-> 0, status |-> 0, body |-> FALSE, hooked |-> 0,
   skips |-> {}, error |-> FALSE]

\* token: the token of the last resume; reclaimed: whether its update reset
\* a row; mark_fetched: calls of _set_url_as_fetched; claimed: their rows;
\* hashed: the direct calls of URLData.hash, each with what it returned
NoRun ==
  [token |-> NoToken, reclaimed |-> FALSE, mark_fetched |-> 0, claimed |-> {},
   hashed |-> {}]

\* TasksState.reset
reset == [i \in Tasks |-> FALSE]

\* set_free_task that marks no task
set_free_task_lost(ts, task_idx) == ts

\* set_free_task that marks every task
set_free_task_all(ts, task_idx) == [i \in Tasks |-> TRUE]

\* TasksState.set_free_task
set_free_task(ts, task_idx) == [ts EXCEPT ![task_idx] = TRUE]

\* TasksState.__bool__
all_free(ts) == \A i \in Tasks : ts[i]

\* Crawler.__init__ on an empty store
Init ==
  /\ tokens = <<>>
  /\ urls = <<>>
  /\ urls_limit \in {NoLimit, LimitL}
  /\ tasks_state = reset
  /\ busy = FALSE
  /\ token_id = NoToken
  /\ crawling_mode = "unset"
  /\ initial_url_data = NoUrlData
  /\ frame = [i \in Tasks |-> NoFrame]
  /\ running = {}
  /\ outcome = "none"
  /\ crashes = 0
  /\ run = NoRun

\* --------------------------------------------------------------- the store
RowIds(us, t) == {k \in 1..Len(us) : us[k].token_id = t}

\* a lookup that misses the rows not fetched yet
idx_token_hash_stale(us, t, h) ==
  {k \in 1..Len(us) : us[k].token_id = t /\ us[k].hash_id = h /\ us[k].fetched}

\* the index idx_token_hash of the urls table: the rows with a given key
idx_token_hash(us, t, h) ==
  {k \in 1..Len(us) : us[k].token_id = t /\ us[k].hash_id = h}

\* UniqueConstraint("token_id", "hash_id"): whether an insert is refused
UniqueViolation(us, t, h) == idx_token_hash(us, t, h) # {}

\* insert(url_table).values(token_id, url, hash_id): status NULL, flags False
NewRow(t, d) ==
  [hash_id |-> hash(d), token_id |-> t, url |-> d.full_url, status |-> NULL,
   fetched |-> FALSE, processed |-> FALSE]

\* _get_next_url without the test of the fetched flag
_get_next_url_unfiltered(us, t) ==
  LET open == {k \in RowIds(us, t) : ~us[k].processed}
  IN IF open = {} THEN 0 ELSE CHOOSE k \in open : \A j \in open : k <= j

\* _get_next_url ordered by id descending
_get_next_url_newest(us, t) ==
  LET open == {k \in RowIds(us, t) : ~us[k].processed /\ ~us[k].fetched}
  IN IF open = {} THEN 0 ELSE CHOOSE k \in open : \A j \in open : k >= j

\* Crawler._get_next_url: the id of the first row to fetch, 0 when none
_get_next_url(us, t) ==
  LET open == {k \in RowIds(us, t) : ~us[k].processed /\ ~us[k].fetched}
  IN IF open = {} THEN 0 ELSE CHOOSE k \in open : \A j \in open : k <= j

\* Crawler._check_hash_exists
_check_hash_exists(us, t, h) == idx_token_hash(us, t, h) # {}

\* _add_url whose insert is never committed
_add_url_lost(us, t, d) == us

\* Crawler._add_url: the table after the insert; an insert the unique
\* constraint refuses raises and leaves the table as it was
_add_url(us, t, d) ==
  IF UniqueViolation(us, t, hash(d)) THEN us ELSE Append(us, NewRow(t, d))

\* Crawler._set_url_as_fetched
_set_url_as_fetched(us, id) == [us EXCEPT ![id].fetched = TRUE]

\* _set_url_as_processed that leaves the status column alone
_set_url_as_processed_no_status(us, id, status) == [us EXCEPT ![id].processed = TRUE]

\* _set_url_as_processed that writes the status and not the flag
_set_url_as_processed_status_only(us, id, status) == [us EXCEPT ![id].status = status]

\* Crawler._set_url_as_processed
_set_url_as_processed(us, id, status) ==
  [us EXCEPT ![id].processed = TRUE, ![id].status = status]

\* the count query of Crawler._process_url
count(us, t) == Cardinality(RowIds(us, t))

\* resume without its update
reset_inflight_skipped(us, t) == us

\* the update of resume without the test of the processed flag
reset_inflight_all(us, t) ==
  [k \in 1..Len(us) |->
     IF us[k].token_id = t /\ us[k].fetched
       THEN [us[k] EXCEPT !.fetched = FALSE] ELSE us[k]]

\* the update of Crawler.resume: rows in flight become fetchable again
reset_inflight(us, t) ==
  [k \in 1..Len(us) |->
     IF us[k].token_id = t /\ ~us[k].processed /\ us[k].fetched
       THEN [us[k] EXCEPT !.fetched = FALSE] ELSE us[k]]

\* the second query of resume without its test of the processed flag
Unprocessed_any(us, t) == RowIds(us, t)

Unprocessed(us, t) == {k \in RowIds(us, t) : ~us[k].processed}

\* ------------------------------------------------------- admission filter
_forbidden_domains == {}
_forbidden_keywords == {}

_allowed_extensions ==
  { <<"h", "t", "m">>, <<"h", "t", "m", "l">>, <<"s", "h", "t", "m", "l">>,
    <<"a", "s", "p">>, <<"a", "s", "p", "x">>, <<"j", "s", "p">>,
    <<"j", "s", "p", "x">>, <<"p", "h", "p">>, <<"p", "h", "p", "5">>,
    <<"p", "h", "p", "4">>, <<"t", "x", "t">>, <<>> }

\* candidate_url.startswith("#")
IsFragmentOnly(c) ==
  c.scheme = "" /\ c.netloc = <<>> /\ c.path = <<>> /\ c.query = <<>>
    /\ c.fragment # ""

\* the scope tests without the one of DOMAIN_ONLY
InScope_subdomains_only(mode, seed, d) ==
  ~(mode = "DOMAIN_AND_SUBDOMAINS" /\ ~endswith(domain(d), domain(seed)))

\* the two scope tests of Crawler._process_url
InScope(mode, seed, d) ==
  /\ ~(mode = "DOMAIN_ONLY" /\ domain(d) # domain(seed))
  /\ ~(mode = "DOMAIN_AND_SUBDOMAINS" /\ ~endswith(domain(d), domain(seed)))

\* a pattern P matches the host as ^([a-z0-9-]+\.)*(P)$
DomainForbidden(d) ==
  \E p \in _forbidden_domains :
    domain(d) = p \/ endswith(domain(d), <<".">> \o p)

\* a pattern P matches the URL as .*(P).*
KeywordForbidden(d) ==
  \E p \in _forbidden_keywords :
    \E k \in 1..Len(d.full_url.path) :
      startswith(SubSeq(d.full_url.path, k, Len(d.full_url.path)), p)

Extension(d) ==
  IF Contains(d.details.path, ".")
    THEN LET e == AfterLastDot(lower(d.details.path))
         IN IF Len(e) > MaxExtensionLen THEN <<>> ELSE e
    ELSE <<>>

\* one candidate of the loop of Crawler._process_url, after the cap test:
\* the test that skips it (`continue`), or "add"
Verdict(us, t, mode, seed, candidate_url, parent_url) ==
  LET d == URLData(candidate_url, parent_url)
  IN IF IsFragmentOnly(candidate_url) THEN "fragment"
     ELSE IF ~Valid(d) THEN "invalid"
     ELSE IF _check_hash_exists(us, t, hash(d)) THEN "dup"
     ELSE IF ~InScope(mode, seed, d) THEN "scope"
     ELSE IF DomainForbidden(d) THEN "domain"
     ELSE IF KeywordForbidden(d) THEN "keyword"
     ELSE IF Extension(d) \notin _allowed_extensions THEN "extension"
     ELSE "add"

\* the cap test with > in place of >=
CapReached_late(limit, total_urls) == limit # NoLimit /\ total_urls > limit

\* the cap test at the head of the loop: `break`
CapReached(limit, total_urls) == limit # NoLimit /\ total_urls >= limit

\* if html and (status >= 200 or status <= 299)
ShallProcess(html, status) == ~html.empty /\ (status >= 200 \/ status <= 299)

\* --------------------------------------------------------- session manager
\* a lookup that gives the newest token when the id is unknown
token_lookup_newest(t, tks) == IF t \in 1..Len(tks) THEN t ELSE Len(tks)

\* select(token_table).where(id == token_id).first(): the id of the row
\* found, NoToken when there is none
token_lookup(t, tks) == IF t \in 1..Len(tks) THEN t ELSE NoToken

\* Crawler.resume from line 321 on (busy is False), on the tables and fields
\* as its caller left them
ResumeFrom(t, tks, us, cm, iud) ==
  /\ tokens' = tks
  /\ UNCHANGED <<urls_limit, tasks_state, crashes>>
  /\ IF t = NoToken \/ token_lookup(t, tks) = NoToken
       THEN /\ urls' = us
            /\ crawling_mode' = cm
            /\ initial_url_data' = iud
            /\ outcome' = "CrawlerException"
            /\ UNCHANGED <<busy, token_id, frame, running, run>>
       ELSE LET us2 == reset_inflight(us, t)
                log == [NoRun EXCEPT !.token = t, !.reclaimed = (us2 # us)]
            IN /\ urls' = us2
               /\ running' = {}
               /\ run' = log
               /\ IF Unprocessed(us2, t) = {}
                    THEN /\ crawling_mode' = cm
                         /\ initial_url_data' = iud
                         /\ outcome' = "finished"
                         /\ UNCHANGED <<busy, token_id, frame>>
                    ELSE /\ crawling_mode' = tks[t].mode
                         /\ initial_url_data' = URLData(tks[t].url, NoUrl)
                         /\ token_id' = t
                         /\ busy' = TRUE
                         /\ frame' = [i \in Tasks |-> [NoFrame EXCEPT !.pc = "loop"]]
                         /\ outcome' = "gathering"

\* a refusal that comes after the update of resume, on the token of the run
Refused_after_update ==
  /\ urls' = reset_inflight(urls, token_id)
  /\ UNCHANGED <<tokens, urls_limit, tasks_state, busy, token_id, crawling_mode,
                 initial_url_data, frame, running, outcome, crashes, run>>

\* print("Crawling is in process."); return
Refused == UNCHANGED vars

\* Crawler.start, up to the await of asyncio.gather in resume, while the
\* store holds fewer than `most` tokens
StartCall(most, initial_url, mode) ==
  /\ running = {}
  /\ Len(tokens) < most
  /\ IF busy THEN Refused
     ELSE LET d == URLData(initial_url, NoUrl)
          IN IF d.raises
               THEN /\ outcome' = "TypeError"
                    /\ UNCHANGED <<tokens, urls, urls_limit, tasks_state, busy,
                                   token_id, crawling_mode, initial_url_data,
                                   frame, running, crashes, run>>
             ELSE IF ~Valid(d)
               THEN /\ initial_url_data' = d
                    /\ outcome' = "CrawlerException"
                    /\ UNCHANGED <<tokens, urls, urls_limit, tasks_state, busy,
                                   token_id, crawling_mode, frame, running,
                                   crashes, run>>
             ELSE LET tks == Append(tokens, [url |-> d.full_url, mode |-> mode])
                      new == Len(tks)
                  IN ResumeFrom(new, tks, Append(urls, NewRow(new, d)), mode, d)

Start(initial_url, mode) == StartCall(MaxTokens, initial_url, mode)

\* Crawler.start in a process that is never killed
StartAgain(initial_url, mode) == StartCall(MaxRuns, initial_url, mode)

\* Crawler.resume, up to the await of asyncio.gather
Resume(t) ==
  /\ running = {}
  /\ IF busy THEN Refused
     ELSE ResumeFrom(t, tokens, urls, crawling_mode, initial_url_data)

\* Crawler.resume after asyncio.gather: every task has returned
GatherDone ==
  /\ busy
  /\ running = {}
  /\ \A i \in Tasks : frame[i].pc = "done"
  /\ busy' = FALSE
  /\ frame' = [i \in Tasks |-> NoFrame]
  /\ outcome' = "completed"
  /\ UNCHANGED <<tokens, urls, urls_limit, tasks_state, token_id, crawling_mode,
                 initial_url_data, running, crashes, run>>

\* the process is killed and the program started again: Crawler.__init__ on
\* the store as it is
Crash ==
  /\ busy
  /\ crashes < MaxCrashes
  /\ crashes' = crashes + 1
  /\ tasks_state' = reset
  /\ busy' = FALSE
  /\ token_id' = NoToken
  /\ crawling_mode' = "unset"
  /\ initial_url_data' = NoUrlData
  /\ frame' = [i \in Tasks |-> NoFrame]
  /\ running' = {}
  /\ outcome' = "none"
  /\ run' = NoRun
  /\ UNCHANGED <<tokens, urls, urls_limit>>

\* ------------------------------------------------------------- Crawler.task
\* the loop of Crawler._process_url over the hrefs left: the table it leaves,
\* whether an insert raised, and the tests that stopped a candidate
RECURSIVE ExtractLoop(_, _, _, _, _, _, _)
ExtractLoop(us, t, mode, seed, limit, parent_url, st) ==
  IF st.urls = <<>>
    THEN [urls |-> us, raised |-> FALSE, skips |-> st.skips]
  ELSE IF CapReached(limit, st.total_urls)
    THEN [urls |-> us, raised |-> FALSE, skips |-> st.skips \cup {"cap"}]
  ELSE LET candidate_url == Head(st.urls)
           d == URLData(candidate_url, parent_url)
           v == Verdict(us, t, mode, seed, candidate_url, parent_url)
       IN IF v # "add"
            THEN ExtractLoop(us, t, mode, seed, limit, parent_url,
                             [st EXCEPT !.urls = Tail(@), !.skips = @ \cup {v}])
          ELSE IF UniqueViolation(us, t, hash(d))
            THEN [urls |-> us, raised |-> TRUE, skips |-> st.skips]
          ELSE ExtractLoop(_add_url(us, t, d), t, mode, seed, limit, parent_url,
                           [st EXCEPT !.urls = Tail(@), !.total_urls = @ + 1])

\* Crawler._process_url(parent_url, html)
_process_url(us, t, mode, seed, limit, parent_url, html) ==
  ExtractLoop(us, t, mode, seed, limit, parent_url,
              [urls |-> html.hrefs, total_urls |-> count(us, t), skips |-> {}])

InFlightPcs == {"get", "text", "mark"}

\* the head of the loop, run without an await: leave when every task is free,
\* else sleep when there is nothing to fetch, else claim the next row
LoopHead(i) ==
  /\ busy
  /\ frame[i].pc = "loop"
  /\ running \subseteq {i}
  /\ UNCHANGED <<tokens, urls_limit, busy, token_id, crawling_mode,
                 initial_url_data, outcome, crashes>>
  /\ running' = {}
  /\ IF all_free(tasks_state)
       THEN /\ frame' = [frame EXCEPT ![i].pc = "done"]
            /\ UNCHANGED <<urls, tasks_state, run>>
     ELSE LET url == _get_next_url(urls, token_id)
          IN IF url = 0
               THEN /\ tasks_state' = set_free_task(tasks_state, i)
                    /\ UNCHANGED <<urls, frame, run>>
               ELSE /\ tasks_state' = reset
                    /\ urls' = _set_url_as_fetched(urls, url)
                    /\ frame' = [frame EXCEPT ![i] =
                                   [NoFrame EXCEPT !.pc = "get", !.url = url]]
                    /\ run' = [run EXCEPT !.mark_fetched = @ + 1,
                                          !.claimed = @ \cup {url}]

FetchVars == <<tokens, urls_limit, tasks_state, busy, token_id, crawling_mode,
               initial_url_data, outcome, crashes, run>>

\* lines 282-283 once the fetch has ended with this status and html: the
\* page is handed to _process_url, which ends by calling the hook.  The task
\* then holds the event loop up to its next await.
AfterFetch(i, status, html, error) ==
  /\ running' = {i}
  /\ IF ShallProcess(html, status)
       THEN LET r == _process_url(urls, token_id, crawling_mode, initial_url_data,
                                  urls_limit, urls[frame[i].url].url, html)
            IN /\ urls' = r.urls
               /\ frame' = [frame EXCEPT
                    ![i].pc = IF r.raised THEN "raised" ELSE "mark",
                    ![i].status = status,
                    ![i].body = ~html.empty,
                    ![i].error = error,
                    ![i].hooked = IF r.raised THEN @ ELSE @ + 1,
                    ![i].skips = r.skips]
       ELSE /\ urls' = urls
            /\ frame' = [frame EXCEPT ![i].pc = "mark", ![i].status = status,
                                      ![i].body = ~html.empty,
                                      ![i].error = error]

\* aiohttp_session.get(url.url): the request fails, or the headers arrive
GetResponse(i) ==
  /\ busy
  /\ frame[i].pc = "get"
  /\ running = {}
  /\ UNCHANGED FetchVars
  /\ \/ \* aiohttp.ClientError: pass
        AfterFetch(i, frame[i].status, EmptyHtml, TRUE)
     \/ \* asyncio.TimeoutError
        AfterFetch(i, HTTP_VSTATUS_NO_RESPONSE, EmptyHtml, TRUE)
     \/ \* Content-Type is not text/html
        AfterFetch(i, HTTP_VSTATUS_NOT_HTML, EmptyHtml, FALSE)
     \/ \* Content-Type is text/html: status is set, the body is awaited
        /\ \E st \in Statuses :
             frame' = [frame EXCEPT ![i].pc = "text", ![i].status = st]
        /\ UNCHANGED <<urls, running>>

\* await response.text(): the body arrives, or the read fails
ReadText(i) ==
  /\ busy
  /\ frame[i].pc = "text"
  /\ running = {}
  /\ UNCHANGED FetchVars
  /\ \/ \E html \in Bodies : AfterFetch(i, frame[i].status, html, FALSE)
     \/ \* aiohttp.ClientError: pass
        AfterFetch(i, frame[i].status, EmptyHtml, TRUE)
     \/ \* asyncio.TimeoutError
        AfterFetch(i, HTTP_VSTATUS_NO_RESPONSE, EmptyHtml, TRUE)

\* self._set_url_as_processed(url, status), then back to the head of the loop
\* (the locals of the turn that ended are dead: the next turn sets them anew)
SetProcessed(i) ==
  /\ busy
  /\ frame[i].pc = "mark"
  /\ running = {i}
  /\ UNCHANGED <<tokens, urls_limit, tasks_state, busy, token_id, crawling_mode,
                 initial_url_data, outcome, crashes, running, run>>
  /\ urls' = _set_url_as_processed(urls, frame[i].url, frame[i].status)
  /\ frame' = [frame EXCEPT ![i] = [NoFrame EXCEPT !.pc = "loop"]]

\* --------------------------------------------------------- a task that raises
\* an exception leaves the task after its fetch: custom_process_url (the last
\* statement of _process_url) or the store in _set_url_as_processed raises,
\* nothing in Crawler.task catches it, and the task ends
TaskRaises(i) ==
  /\ busy
  /\ frame[i].pc = "mark"
  /\ running = {i}
  /\ frame' = [frame EXCEPT ![i].pc = "raised"]
  /\ running' = {}
  /\ UNCHANGED <<tokens, urls, urls_limit, tasks_state, busy, token_id,
                 crawling_mode, initial_url_data, outcome, crashes, run>>

\* await asyncio.gather(*tasks) with a task that raised: the exception leaves
\* resume at line 350, line 351 is not reached, and the other tasks go on
GatherRaises ==
  /\ busy
  /\ outcome = "gathering"
  /\ running = {}
  /\ \E i \in Tasks : frame[i].pc = "raised"
  /\ outcome' = "raised"
  /\ UNCHANGED <<tokens, urls, urls_limit, tasks_state, busy, token_id,
                 crawling_mode, initial_url_data, frame, running, crashes, run>>

\* ------------------------------------------------------------ direct calls
\* self._add_url(URLData(url)) called from outside _process_url (a hook, or
\* the program that owns the crawler), once a token is loaded: the insert
\* goes through, or the unique constraint refuses it and the call raises
AddUrlCall(url) ==
  /\ token_id # NoToken
  /\ running = {}
  /\ LET d == URLData(url, NoUrl)
     IN /\ Valid(d)
        /\ urls' = _add_url(urls, token_id, d)
        /\ outcome' = IF UniqueViolation(urls, token_id, hash(d))
                        THEN "IntegrityError" ELSE "added"
  /\ UNCHANGED <<tokens, urls_limit, tasks_state, busy, token_id, crawling_mode,
                 initial_url_data, frame, running, crashes, run>>

\* URLData(url).hash
HashCall(url) ==
  /\ run' = [run EXCEPT !.hashed =
               @ \cup {[url |-> url, hash |-> hash(URLData(url, NoUrl))]}]
  /\ UNCHANGED <<tokens, urls, urls_limit, tasks_state, busy, token_id,
                 crawling_mode, initial_url_data, frame, running, outcome,
                 crashes>>

\* -------------------------------------------------------------------- spec
TokenIds == 0..MaxRuns

Next ==
  \/ \E initial_url \in Seeds, mode \in Modes : Start(initial_url, mode)
  \/ \E t \in TokenIds : Resume(t)
  \/ GatherDone
  \/ Crash
  \/ \E i \in Tasks : LoopHead(i)
  \/ \E i \in Tasks : GetResponse(i)
  \/ \E i \in Tasks : ReadText(i)
  \/ \E i \in Tasks : SetProcessed(i)

\* one process after another on one store: a run may be killed and resumed
Spec == Init /\ [][Next]_vars

NextReuse ==
  \/ \E initial_url \in Seeds, mode \in Modes : StartAgain(initial_url, mode)
  \/ \E t \in TokenIds : Resume(t)
  \/ GatherDone
  \/ \E i \in Tasks : LoopHead(i)
  \/ \E i \in Tasks : GetResponse(i)
  \/ \E i \in Tasks : ReadText(i)
  \/ \E i \in Tasks : SetProcessed(i)

\* one process that is never killed: one Crawler object, run after run
ReuseSpec == Init /\ [][NextReuse]_vars

\* the event loop runs every task that can run, and every fetch ends
Fairness ==
  /\ WF_vars(GatherDone)
  /\ \A i \in Tasks :
       /\ WF_vars(LoopHead(i))
       /\ WF_vars(GetResponse(i))
       /\ WF_vars(ReadText(i))
       /\ WF_vars(SetProcessed(i))

FairSpec == ReuseSpec /\ Fairness

NextFail ==
  \/ \E initial_url \in Seeds, mode \in Modes : Start(initial_url, mode)
  \/ \E t \in TokenIds : Resume(t)
  \/ GatherDone
  \/ GatherRaises
  \/ \E i \in Tasks : LoopHead(i)
  \/ \E i \in Tasks : GetResponse(i)
  \/ \E i \in Tasks : ReadText(i)
  \/ \E i \in Tasks : SetProcessed(i)
  \/ \E i \in Tasks : TaskRaises(i)

\* one process in which the hook or the store may raise inside a task
FailSpec == Init /\ [][NextFail]_vars

NextCalls ==
  \/ \E initial_url \in Seeds, mode \in Modes : StartAgain(initial_url, mode)
  \/ \E url \in FingerprintInputs : AddUrlCall(url)
  \/ \E url \in FingerprintInputs : HashCall(url)

\* the methods of the store and of URLData called one by one, no task running
CallsSpec == Init /\ [][NextCalls]_vars

\* ------------------------------------------------------------------ claims
InFlight(i) == frame[i].pc \in InFlightPcs

ProcessedRows(t) == {k \in RowIds(urls, t) : urls[k].processed}

\* C1: at-most-once fetch. No two tasks hold the same row between the call
\* of _set_url_as_fetched and that of _set_url_as_processed; in a run no row
\* is marked fetched twice (the calls of _set_url_as_fetched are as many as
\* the rows they marked); and when resume has returned after the gather, the
\* calls are as many as the rows the run processed.
C1_AtMostOnceFetch ==
  /\ \A i, j \in Tasks :
       i # j /\ InFlight(i) /\ InFlight(j) => frame[i].url # frame[j].url
  /\ run.mark_fetched = Cardinality(run.claimed)
  /\ outcome = "completed" =>
       run.mark_fetched = Cardinality({k \in run.claimed : urls[k].processed})

\* two tasks hold a row each at once, the second claimed while the first is
\* still in flight, in a run that has claimed three rows
C1_Witness ==
  /\ \A i \in Tasks : InFlight(i)
  /\ run.mark_fetched = 3

\* C2: run completion. When resume returns after the gather, no row of the
\* token is unprocessed.
C2_RunCompletion ==
  outcome = "completed" => Unprocessed(urls, token_id) = {}

\* C3: quiescence termination. Once a run's token has no unprocessed row,
\* every task leaves its loop and resume returns.
C3_QuiescenceTermination ==
  (busy /\ Unprocessed(urls, token_id) = {}) ~> (~busy /\ outcome = "completed")

\* the frontier is empty, rows were fetched in this run, and not every task
\* has seen it empty yet
C3_Witness ==
  /\ busy
  /\ Unprocessed(urls, token_id) = {}
  /\ run.mark_fetched > 0
  /\ \E i \in Tasks : ~tasks_state[i]

\* C4: dedup. No two rows of a token have the same hash_id.
C4_Dedup ==
  \A j, k \in 1..Len(urls) :
    j # k /\ urls[j].token_id = urls[k].token_id => urls[j].hash_id # urls[k].hash_id

\* a page has just been extracted, one of its links was found present by its
\* hash and skipped, and the token holds three rows
C4_Witness ==
  \E i \in Tasks :
    /\ frame[i].pc = "mark"
    /\ "dup" \in frame[i].skips
    /\ count(urls, token_id) = 3

\* C5: cap. With urls_limit = L set, no token ever has more than L rows.
C5_Cap ==
  urls_limit # NoLimit =>
    \A t \in 1..Len(tokens) : count(urls, t) <= urls_limit

\* the loop of _process_url has just stopped at the cap with the token full
C5_Witness ==
  \E i \in Tasks :
    /\ frame[i].pc = "mark"
    /\ "cap" \in frame[i].skips
    /\ urls_limit # NoLimit
    /\ count(urls, token_id) = urls_limit

Host(u) == lower(u.netloc)

Reclaimable(r) == ~r.fetched /\ ~r.processed

\* C7: resume safety. The step of resume on an existing token leaves every
\* row of the token processed or re-claimable, and no step makes a processed
\* row unprocessed.
C7_ResumeSafety ==
  [][ /\ \A t \in 1..Len(tokens) :
           Resume(t) /\ ~busy =>
             \A k \in RowIds(urls', t) : urls'[k].processed \/ Reclaimable(urls'[k])
      /\ \A k \in 1..Len(urls) : urls[k].processed => urls'[k].processed ]_vars

\* a killed run has been resumed: the update reset a row in flight, beside a
\* row processed before the kill, and no task has run yet
C7_Witness ==
  /\ crashes = 1
  /\ run.reclaimed
  /\ outcome = "gathering"
  /\ run.mark_fetched = 0
  /\ ProcessedRows(token_id) # {}
  /\ \A i \in Tasks : frame[i].pc = "loop"

\* C8: every processed row is fetched.
C8_ProcessedIsFetched ==
  \A k \in 1..Len(urls) : urls[k].processed => urls[k].fetched

\* after a kill and the update of resume, a row processed before the kill
\* stands beside a row that is in flight again
C8_Witness ==
  /\ crashes = 1
  /\ run.reclaimed
  /\ \E k \in ProcessedRows(token_id) : k \notin run.claimed
  /\ \E k \in run.claimed : ~urls[k].processed

\* C9: the status of a row is non-NULL exactly when the row is processed.
C9_StatusIffProcessed ==
  \A k \in 1..Len(urls) : (urls[k].status # NULL) <=> urls[k].processed

\* a row processed with status 0 beside a row not yet processed
C9_Witness ==
  /\ \E k \in 1..Len(urls) :
       urls[k].processed /\ urls[k].status = HTTP_VSTATUS_NO_RESPONSE
  /\ \E k \in 1..Len(urls) : ~urls[k].processed

\* C10: the hook runs once for a fetch that gave a non-empty body with a
\* status from 200 to 299, and not at all for any other fetch.
C10_HookOnSuccessOnly ==
  \A i \in Tasks :
    frame[i].pc = "mark" =>
      frame[i].hooked =
        (IF frame[i].body /\ 200 <= frame[i].status /\ frame[i].status <= 299
           THEN 1 ELSE 0)

\* C11: a fetch that ended in a client error or a timeout, wherever in the
\* request it happened, leaves the worker about to record status 0 with an
\* empty body, and the page was not handed to the hook.
C11_FetchErrorIsStatusZero ==
  \A i \in Tasks :
    frame[i].pc = "mark" /\ frame[i].error =>
      /\ frame[i].status = HTTP_VSTATUS_NO_RESPONSE
      /\ ~frame[i].body
      /\ frame[i].hooked = 0

\* C12: a call of start or resume made while busy raises nothing and changes
\* nothing: the tables, token_id, mode, seed, busy and TasksState keep their
\* values, and the tasks of the run stay where they are.
C12_BusyGuard ==
  [][ busy /\ ( \/ \E initial_url \in Seeds, mode \in Modes :
                      StartAgain(initial_url, mode)
                \/ \E t \in TokenIds : Resume(t) )
        => /\ UNCHANGED <<tokens, urls, token_id, crawling_mode,
                          initial_url_data, busy, tasks_state, frame>>
           /\ outcome' = outcome ]_vars

\* a run is under way with a row in flight, no task holds the event loop, and
\* the store has room for one more token: start and resume can be called
C12_Witness ==
  /\ busy
  /\ running = {}
  /\ Len(tokens) < MaxRuns
  /\ \E k \in 1..Len(urls) : urls[k].fetched /\ ~urls[k].processed

\* C13: start with a seed that has a scheme other than http(s), or no scheme
\* at all, ends in CrawlerException and inserts no token and no row, and the
\* crawler is not busy afterwards.
C13_InvalidSeedRaisesCrawlerException ==
  [][ \A initial_url \in Seeds, mode \in Modes :
        ( /\ ~busy
          /\ LowerScheme(initial_url.scheme) \notin {"http", "https"}
          /\ Start(initial_url, mode) )
          => /\ outcome' = "CrawlerException"
             /\ UNCHANGED <<tokens, urls, busy>> ]_vars

\* C14: resume called while not busy with token id 0 or with an id that has
\* no token row ends in CrawlerException, starts no task, and changes neither
\* table: no fetched flag is reset and busy stays false.
C14_ResumeUnknownToken ==
  [][ \A t \in TokenIds :
        ( /\ ~busy
          /\ t = NoToken \/ t \notin 1..Len(tokens)
          /\ Resume(t) )
          => /\ outcome' = "CrawlerException"
             /\ UNCHANGED <<tokens, urls, busy, frame>> ]_vars

\* after a kill left a row in flight, a resume with a wrong token id has
\* ended in CrawlerException (start is not possible here: the store is full)
C14_Witness ==
  /\ outcome = "CrawlerException"
  /\ crashes = 1
  /\ ~busy
  /\ Len(tokens) = MaxTokens
  /\ \E k \in 1..Len(urls) : urls[k].fetched /\ ~urls[k].processed

\* C15: _add_url called with a (token_id, hash_id) pair that already has a
\* row raises nothing and leaves the table as it was.
C15_AddUrlIdempotent ==
  [][ \A url \in FingerprintInputs :
        ( /\ AddUrlCall(url)
          /\ \E k \in RowIds(urls, token_id) :
               urls[k].hash_id = hash(URLData(url, NoUrl)) )
          => /\ outcome' # "IntegrityError"
             /\ urls' = urls ]_vars

\* what may differ between two URLs that are to share a fingerprint: the
\* fragment, a trailing slash, repeated slashes, a leading www., letter case,
\* and the order of the query parameters
StripTrailingSlash(path) ==
  IF Len(path) > 1 /\ path[Len(path)] = "/"
    THEN SubSeq(path, 1, Len(path) - 1)
  ELSE IF path = <<>> THEN <<"/">> ELSE path

StripWww(host) ==
  IF startswith(host, <<"w", "w", "w", ".">>) THEN SubSeq(host, 5, Len(host))
  ELSE host

Canonical(u) ==
  [scheme |-> LowerScheme(u.scheme),
   host |-> StripWww(lower(u.netloc)),
   path |-> StripTrailingSlash(CollapseSlashes(lower(u.path))),
   query |-> {<<Lower(u.query[k][1]), Lower(u.query[k][2])>> : k \in 1..Len(u.query)}]

\* C16: two valid http(s) URLs that differ only in fragment, trailing slash,
\* repeated slashes, a leading www., letter case or query order have the
\* same fingerprint.
C16_FingerprintEquivalence ==
  \A p, q \in run.hashed :
    Canonical(p.url) = Canonical(q.url) => p.hash = q.hash

\* C17: in a run that began with every bit of TasksState clear, whenever all
\* the bits are set the token has no unprocessed row and no task is between
\* claiming a row and marking it processed; and the step in which a task
\* claims a row leaves every bit clear.
C17_ConsensusSound ==
  [][ /\ (busy /\ \A i \in Tasks : tasks_state[i])
           => /\ \A k \in RowIds(urls, token_id) : urls[k].processed
              /\ \A i \in Tasks : ~InFlight(i)
      /\ \A i \in Tasks :
           (frame[i].pc = "loop" /\ frame'[i].pc = "get")
             => \A j \in Tasks : ~tasks_state'[j] ]_vars

\* after three claims every bit is set while a task is still at the head of
\* its loop, about to leave it
C17_Witness ==
  /\ busy
  /\ \A i \in Tasks : tasks_state[i]
  /\ run.mark_fetched = 3
  /\ \E i \in Tasks : frame[i].pc = "loop"

Claimable == {k \in RowIds(urls, token_id) : ~urls[k].processed /\ ~urls[k].fetched}

\* C18: the row a task claims is the one with the smallest id among the
\* token's rows with processed=false and fetched=false, no row is claimed
\* when there is none, and its id is greater than the id of every row claimed
\* before it in the run, by whichever task.
C18_FifoDequeue ==
  [][ \A i \in Tasks :
        (frame[i].pc = "loop" /\ frame'[i].pc = "get")
          => /\ frame'[i].url \in Claimable
             /\ \A k \in Claimable : frame'[i].url <= k
             /\ \A k \in run.claimed : k < frame'[i].url ]_vars

\* a task has made the second claim of the run while a row with a greater
\* id was waiting
C18_Witness ==
  /\ run.mark_fetched = 2
  /\ \E i \in Tasks :
       /\ frame[i].pc = "get"
       /\ \A k \in run.claimed : k <= frame[i].url
       /\ \E k \in Claimable : k > frame[i].url

\* C19: resume, called while not busy on a token all of whose rows are
\* processed, returns without raising, starts no task, leaves busy false and
\* changes no row.
C19_ResumeFinishedToken ==
  [][ \A t \in 1..Len(tokens) :
        ( /\ ~busy
          /\ \A k \in RowIds(urls, t) : urls[k].processed
          /\ Resume(t) )
          => /\ outcome' = "finished"
             /\ UNCHANGED <<urls, busy, frame, tasks_state>> ]_vars

\* resume has returned "Crawling finished!" on a token of three processed
\* rows, one of them processed before a kill
C19_Witness ==
  /\ outcome = "finished"
  /\ ~busy
  /\ crashes = 1
  /\ Len(urls) = 3
  /\ \A k \in 1..Len(urls) : urls[k].processed

InFlightRows == {k \in RowIds(urls, token_id) : urls[k].fetched /\ ~urls[k].processed}

\* C20: during a run the token's rows with fetched=true and processed=false
\* are at most as many as the tasks, and each of them is held by exactly one
\* task.
C20_ParallelismBound ==
  busy =>
    /\ Cardinality(InFlightRows) <= NumberOfTasks
    /\ \A k \in InFlightRows :
         Cardinality({i \in Tasks : InFlight(i) /\ frame[i].url = k}) = 1

\* in a resumed run every task holds a row
C20_Witness ==
  /\ busy
  /\ crashes = 1
  /\ Cardinality(InFlightRows) = NumberOfTasks

\* a link of a page that no test of _process_url turns down, for the mode and
\* seed stored in the token
Admissible(t, href, parent_url) ==
  LET d == URLData(href, parent_url)
      seed == URLData(tokens[t].url, NoUrl)
  IN /\ Valid(d)
     /\ tokens[t].mode = "DOMAIN_ONLY" => domain(d) = domain(seed)
     /\ tokens[t].mode = "DOMAIN_AND_SUBDOMAINS" => endswith(domain(d), domain(seed))
     /\ Extension(d) \in _allowed_extensions

\* the link has a row of the token, or the token is at its cap
Committed(us, t, href, parent_url) ==
  \/ \E k \in RowIds(us, t) : us[k].hash_id = hash(URLData(href, parent_url))
  \/ urls_limit # NoLimit /\ count(us, t) >= urls_limit

\* C21: no discovered link is lost.  The step that extracts a page leaves a
\* row for every admissible link of the page while the page's own row is
\* still fetched and not processed; a row becomes processed only in the step
\* of a task that has extracted, and that step adds nothing; no step removes
\* or rewrites a row's key; and resume makes every unprocessed row of its
\* token claimable again.
C21_NoLinkLost ==
  [][ /\ \A i \in Tasks, html \in Bodies :
           ( /\ busy /\ frame[i].pc = "text" /\ ~html.empty
             /\ AfterFetch(i, frame[i].status, html, FALSE) )
             => /\ \A n \in 1..Len(html.hrefs) :
                     Admissible(token_id, html.hrefs[n], urls[frame[i].url].url)
                       => Committed(urls', token_id, html.hrefs[n],
                                    urls[frame[i].url].url)
                /\ urls'[frame[i].url].fetched /\ ~urls'[frame[i].url].processed
      /\ \A k \in 1..Len(urls) :
           (~urls[k].processed /\ urls'[k].processed)
             => /\ \E i \in Tasks : frame[i].pc = "mark" /\ frame[i].url = k
                /\ Len(urls') = Len(urls)
      /\ Len(urls') >= Len(urls)
      /\ \A k \in 1..Len(urls) :
           /\ urls'[k].hash_id = urls[k].hash_id
           /\ urls'[k].token_id = urls[k].token_id
      /\ \A t \in 1..Len(tokens) :
           (~busy /\ Resume(t))
             => \A k \in RowIds(urls', t) : ~urls'[k].processed => ~urls'[k].fetched
    ]_vars

\* after a kill and a resume, the seed's page, which was in flight at the
\* kill, has been fetched and extracted again, and its links have rows
C21_Witness ==
  /\ crashes = 1
  /\ run.reclaimed
  /\ Len(urls) = 3
  /\ \E i \in Tasks :
       /\ frame[i].pc = "mark" /\ frame[i].url = 1 /\ frame[i].hooked = 1
       /\ "dup" \in frame[i].skips

\* C22: whenever the last call of resume has ended, by returning or by
\* raising, busy is false and no task of the run is still running.
C22_BusyClearedWhenResumeEnds ==
  outcome \in {"finished", "completed", "raised", "CrawlerException"}
    => /\ ~busy
       /\ \A i \in Tasks : frame[i].pc \in {"none", "done", "raised"}

====
